---- MODULE Spec2Model ----
(***************************************************************************)
(* A model of the `declare` package: the Declare descriptor                *)
(* (src/src/declare/_declare.py), its validate/watch decorators, and the   *)
(* Python attribute protocol through which it reads and writes the         *)
(* per-instance storage.                                                   *)
(*                                                                         *)
(* Python values are records [kind, v]: kind is the value's type, v its    *)
(* payload (the number for numeric kinds, a text index for str/bytes, the  *)
(* heap address for a list).  Mutable lists live in `heap`, so that two    *)
(* references to one list object are visibly aliased.                      *)
(***************************************************************************)
EXTENDS Integers, Sequences, FiniteSets, TLC

VARIABLES
    decl,       \* the Declare objects created so far, in order of creation
    classDict,  \* the host class's namespace: attribute name -> index in decl (0: none)
    objDict,    \* each instance's __dict__: attribute name -> value (Missing: no entry)
    heap,       \* list objects: address -> [used, items]
    last        \* the last operation: what was called, what it returned or raised

vars == <<decl, classDict, objDict, heap, last>>

---------------------------------------------------------------------------
(* Bounds of the model *)

NumObj == 2
MaxDecl == 2
MaxAddr == 5
MaxLen == 1

(* The clamp of examples/color.py *)
ClampLo == 0
ClampHi == 255

Objs == 1..NumObj
Addrs == 1..MaxAddr

---------------------------------------------------------------------------
(* Python values *)

Val(k, v) == [kind |-> k, v |-> v]
IntV(n) == Val("int", n)
ListV(a) == Val("list", a)
None == Val("NoneType", 0)
_NO_VALUE == Val("NoValue", 0)
Missing == Val("missing", 0)

Kinds == {"int", "float", "bool", "str", "bytes", "complex", "list", "NoneType"}
Numeric == {"int", "float", "bool", "complex"}
Ordered == {"int", "float", "bool"}

\* isinstance(val, kinds): bool is a subclass of int.
isinstance(val, kinds) ==
    val.kind \in kinds \/ (val.kind = "bool" /\ "int" \in kinds)

\* a == b in Python: numbers compare by value across the numeric kinds, lists
\* element by element, everything else within its own kind.
RECURSIVE PyEq(_, _, _)
PyEq(h, a, b) ==
    IF a.kind \in Numeric /\ b.kind \in Numeric THEN a.v = b.v
    ELSE IF a.kind # b.kind THEN FALSE
    ELSE IF a.kind = "list"
         THEN LET p == h[a.v].items
                  q == h[b.v].items
              IN  Len(p) = Len(q) /\ \A i \in 1..Len(p) : PyEq(h, p[i], q[i])
    ELSE a.v = b.v

PyNe(h, a, b) == ~PyEq(h, a, b)

FreeAddrs(h) == {a \in Addrs : ~h[a].used}
NewAddr(h) == CHOOSE a \in FreeAddrs(h) : \A b \in FreeAddrs(h) : a <= b

\* copy.copy(val): a new list object holding the same items (a shallow copy);
\* the immutable kinds are returned as they are.
copy(h, val) ==
    IF val.kind = "list"
    THEN [heap |-> [h EXCEPT ![NewAddr(h)] = [used |-> TRUE, items |-> h[val.v].items]],
          val  |-> ListV(NewAddr(h))]
    ELSE [heap |-> h, val |-> val]

---------------------------------------------------------------------------
(* Attribute names.  A name is a sequence of tokens, so that the           *)
(* concatenation f"__declare_private_{name}" is computed, not assumed.     *)

Prefix == "__declare_private_"
private_name(name) == <<Prefix>> \o name

NameX == <<"x">>
NameY == <<"y">>
NamePX == <<Prefix, "x">>
NameValue == <<"value">>
NameThings == <<"things">>
FieldNames == {NameX, NameY, NamePX, NameValue, NameThings}
AttrNames == FieldNames \cup {private_name(n) : n \in FieldNames} \cup {<< >>}

---------------------------------------------------------------------------
(* The Declare object *)

Validators == {"clamp", "positive"}
Watchers == {"log", "boom"}

\* Declare.__init__
DeclareInit(default, validate, watch) ==
    [_name         |-> << >>,
     _private_name |-> << >>,
     _owner        |-> "unset",
     _default      |-> default,
     _validator    |-> validate,
     _watcher      |-> watch,
     _copy_default |-> ~isinstance(default, {"int", "float", "bool", "str", "complex"})]

\* Declare.copy
DeclareCopy(self) ==
    DeclareInit(self._default, self._validator, self._watcher)

\* Declare.__call__
DeclareCall(self, default, validate, watch) ==
    LET d0 == DeclareCopy(self)
        d1 == IF ~isinstance(default, {"NoValue"}) THEN [d0 EXCEPT !._default = default] ELSE d0
        d2 == IF validate # "None" THEN [d1 EXCEPT !._validator = validate] ELSE d1
    IN  IF watch # "None" THEN [d2 EXCEPT !._watcher = watch] ELSE d2

\* Declare.__set_name__
DeclareSetName(self, owner, name) ==
    [self EXCEPT !._owner = owner, !._name = name, !._private_name = private_name(name)]

\* ValidateDecorator.__call__ without the "already set" check.
ValidateDecoratorCallOverwrite(self, method) ==
    IF method = "None" THEN [raised |-> "none", decl |-> self, ret |-> "decorator"]
    ELSE [raised |-> "none", decl |-> [self EXCEPT !._validator = method], ret |-> method]

\* ValidateDecorator.__call__(method) on the decorator of `self`
ValidateDecoratorCall(self, method) ==
    IF method = "None" THEN [raised |-> "none", decl |-> self, ret |-> "decorator"]
    ELSE IF self._validator # "None"
    THEN [raised |-> "DeclareError", decl |-> self, ret |-> "None"]
    ELSE [raised |-> "none", decl |-> [self EXCEPT !._validator = method], ret |-> method]

\* WatchDecorator.__call__(method) on the decorator of `self`
WatchDecoratorCall(self, method) ==
    IF method = "None" THEN [raised |-> "none", decl |-> self, ret |-> "decorator"]
    ELSE IF self._watcher # "None"
    THEN [raised |-> "DeclareError", decl |-> self, ret |-> "None"]
    ELSE [raised |-> "none", decl |-> [self EXCEPT !._watcher = method], ret |-> method]

---------------------------------------------------------------------------
(* Running a read or a write.  A machine m is what a call reads and may    *)
(* change: the descriptors and the class they are bound in (read only),    *)
(* the instances' dicts, the heap, the calls made to validators and        *)
(* watchers, and the exception raised, if any.                             *)

Machine(dc, cd, od, h) ==
    [decl |-> dc, classDict |-> cd, objDict |-> od, heap |-> h,
     vcalls |-> << >>, wcalls |-> << >>, raised |-> "none"]

\* max(0, min(255, component)) of examples/color.py: max and min return one of
\* their arguments, the first one on a tie.
clamp(value) ==
    LET lo == IF value.v < ClampHi THEN value ELSE IntV(ClampHi)
    IN  IF lo.v > ClampLo THEN lo ELSE IntV(ClampLo)

\* max(0, value) of tests/test_declare.py
positive(value) ==
    IF value.v > 0 THEN value ELSE IntV(0)

\* self._validator(obj, value); ordering a value of an unordered kind against
\* an int raises TypeError.
CallValidator(m, validator, o, value) ==
    LET m1 == [m EXCEPT !.vcalls = Append(@, <<validator, o, value>>)]
    IN  IF value.kind \notin Ordered
        THEN [m |-> [m1 EXCEPT !.raised = "TypeError"], val |-> None]
        ELSE [m |-> m1, val |-> IF validator = "clamp" THEN clamp(value) ELSE positive(value)]

\* self._watcher(obj, current_value, new_value): "log" records the change and
\* returns, "boom" is a watcher that fails.
CallWatcher(m, watcher, o, old, new) ==
    LET m1 == [m EXCEPT !.wcalls = Append(@, <<watcher, o, old, new>>)]
    IN  IF watcher = "boom" THEN [m1 EXCEPT !.raised = "WatcherError"] ELSE m1

RECURSIVE getattr(_, _, _, _), setattr(_, _, _, _), DeclareGet(_, _, _), DeclareSet(_, _, _, _)

\* getattr(obj, name, default): a data descriptor of the class comes first, then
\* the instance's dict, then the default.
getattr(m, o, name, default) ==
    IF m.classDict[name] # 0 THEN DeclareGet(m, m.classDict[name], o)
    ELSE IF m.objDict[o][name] # Missing THEN [m |-> m, val |-> m.objDict[o][name]]
    ELSE [m |-> m, val |-> default]

\* setattr(obj, name, value): a data descriptor of the class comes first.
setattr(m, o, name, value) ==
    IF m.classDict[name] # 0 THEN DeclareSet(m, m.classDict[name], o, value)
    ELSE [m EXCEPT !.objDict[o][name] = value]

\* The default a first read stores: a copy when _copy_default is set.
MaterializeDefault(h, self) ==
    IF self._copy_default THEN copy(h, self._default) ELSE [heap |-> h, val |-> self._default]

\* Declare.__get__ returning the default without storing it.
DeclareGetNoStore(m, d, o) ==
    LET self == m.decl[d]
        got  == getattr(m, o, self._private_name, _NO_VALUE)
    IN  IF got.m.raised # "none" THEN got
        ELSE IF isinstance(got.val, {"NoValue"})
        THEN LET c == MaterializeDefault(got.m.heap, self)
             IN  [m |-> [got.m EXCEPT !.heap = c.heap], val |-> c.val]
        ELSE got

\* Declare.__get__(obj, obj_type) with an instance
DeclareGet(m, d, o) ==
    LET self == m.decl[d]
        got  == getattr(m, o, self._private_name, _NO_VALUE)
    IN  IF got.m.raised # "none" THEN got
        ELSE IF isinstance(got.val, {"NoValue"})
        THEN LET c  == MaterializeDefault(got.m.heap, self)
                 m1 == [got.m EXCEPT !.heap = c.heap]
             IN  [m |-> setattr(m1, o, self._private_name, c.val), val |-> c.val]
        ELSE got

\* The watched path notifying on every write, changed or not.
StoreAndNotifyAlways(self, cur, o, value) ==
    LET nv == IF self._validator = "None" THEN [m |-> cur.m, val |-> value]
              ELSE CallValidator(cur.m, self._validator, o, value)
        m1 == IF nv.m.raised # "none" THEN nv.m
              ELSE setattr(nv.m, o, self._private_name, nv.val)
    IN  IF m1.raised # "none" THEN m1
        ELSE CallWatcher(m1, self._watcher, o, cur.val, nv.val)

\* The watched path notifying before it stores.
NotifyThenStore(self, cur, o, value) ==
    LET nv == IF self._validator = "None" THEN [m |-> cur.m, val |-> value]
              ELSE CallValidator(cur.m, self._validator, o, value)
        m1 == IF nv.m.raised # "none" THEN nv.m
              ELSE IF PyNe(nv.m.heap, cur.val, nv.val)
              THEN CallWatcher(nv.m, self._watcher, o, cur.val, nv.val)
              ELSE nv.m
    IN  IF m1.raised # "none" THEN m1
        ELSE setattr(m1, o, self._private_name, nv.val)

\* The watched path of Declare.__set__ after the old value is read: validate,
\* store, compare, notify.
StoreAndNotify(self, cur, o, value) ==
    LET nv == IF self._validator = "None" THEN [m |-> cur.m, val |-> value]
              ELSE CallValidator(cur.m, self._validator, o, value)
        m1 == IF nv.m.raised # "none" THEN nv.m
              ELSE setattr(nv.m, o, self._private_name, nv.val)
    IN  IF m1.raised # "none" THEN m1
        ELSE IF PyNe(m1.heap, cur.val, nv.val)
        THEN CallWatcher(m1, self._watcher, o, cur.val, nv.val)
        ELSE m1

\* The unwatched path storing the candidate as given.
StorePlainRaw(self, m, o, value) ==
    setattr(m, o, self._private_name, value)

\* The unwatched path of Declare.__set__: validate and store.
StorePlain(self, m, o, value) ==
    LET nv == IF self._validator = "None" THEN [m |-> m, val |-> value]
              ELSE CallValidator(m, self._validator, o, value)
    IN  IF nv.m.raised # "none" THEN nv.m
        ELSE setattr(nv.m, o, self._private_name, nv.val)

\* Declare.__set__(obj, value)
DeclareSet(m, d, o, value) ==
    LET self == m.decl[d]
    IN  IF self._watcher # "None"
        THEN LET cur == getattr(m, o, self._name, None)
             IN  IF cur.m.raised # "none" THEN cur.m
                 ELSE StoreAndNotify(self, cur, o, value)
        ELSE StorePlain(self, m, o, value)

---------------------------------------------------------------------------
(* The record of the last operation *)

NoOp ==
    [op |-> "none", o |-> 0, name |-> << >>, d |-> 0, arg |-> None, ret |-> None,
     new |-> 0, validate |-> "None", watch |-> "None", method |-> "None",
     kws |-> {}, raised |-> "none",
     vcalls |-> << >>, wcalls |-> << >>, prev |-> Missing, self |-> << >>]

\* The entry of instance o under the storage key of descriptor d.
Stored(od, dc, o, d) == od[o][dc[d]._private_name]

\* Whether running a read of descriptor d on o finds a heap cell for the copy
\* it may have to make.
HeapRoom(o, d) ==
    (Stored(objDict, decl, o, d) = Missing /\ decl[d]._copy_default
        /\ decl[d]._default.kind = "list") => FreeAddrs(heap) # {}

Here == Machine(decl, classDict, objDict, heap)

---------------------------------------------------------------------------
(* Operations on instances *)

\* obj.name
Read(o, n) ==
    /\ classDict[n] # 0
    /\ HeapRoom(o, classDict[n])
    /\ LET r == getattr(Here, o, n, Missing)
       IN  /\ objDict' = r.m.objDict
           /\ heap' = r.m.heap
           /\ last' = [NoOp EXCEPT !.op = "get", !.o = o, !.name = n, !.d = classDict[n],
                                   !.ret = r.val, !.raised = r.m.raised,
                                   !.vcalls = r.m.vcalls, !.wcalls = r.m.wcalls,
                                   !.prev = Stored(objDict, decl, o, classDict[n])]
    /\ UNCHANGED <<decl, classDict>>

\* obj.name = value
Write(o, n, value) ==
    /\ classDict[n] # 0
    /\ HeapRoom(o, classDict[n])
    /\ LET m == setattr(Here, o, n, value)
       IN  /\ objDict' = m.objDict
           /\ heap' = m.heap
           /\ last' = [NoOp EXCEPT !.op = "set", !.o = o, !.name = n, !.d = classDict[n],
                                   !.arg = value, !.raised = m.raised,
                                   !.vcalls = m.vcalls, !.wcalls = m.wcalls,
                                   !.prev = Stored(objDict, decl, o, classDict[n])]
    /\ UNCHANGED <<decl, classDict>>

\* obj.name.append(item): the caller mutates, in place, the list a read returned.
AppendTop(o, n, item) ==
    /\ classDict[n] # 0
    /\ HeapRoom(o, classDict[n])
    /\ LET r == getattr(Here, o, n, Missing)
       IN  /\ r.val.kind = "list"
           /\ Len(r.m.heap[r.val.v].items) < MaxLen
           /\ objDict' = r.m.objDict
           /\ heap' = [r.m.heap EXCEPT ![r.val.v].items = Append(@, item)]
           /\ last' = [NoOp EXCEPT !.op = "append", !.o = o, !.name = n, !.d = classDict[n],
                                   !.arg = item, !.ret = r.val,
                                   !.prev = Stored(objDict, decl, o, classDict[n])]
    /\ UNCHANGED <<decl, classDict>>

\* obj.name[0].append(item): the same, on a list held inside the list read.
AppendNested(o, n, item) ==
    /\ classDict[n] # 0
    /\ HeapRoom(o, classDict[n])
    /\ LET r == getattr(Here, o, n, Missing)
       IN  /\ r.val.kind = "list"
           /\ Len(r.m.heap[r.val.v].items) > 0
           /\ LET inner == r.m.heap[r.val.v].items[1]
              IN  /\ inner.kind = "list"
                  /\ Len(r.m.heap[inner.v].items) < MaxLen
                  /\ heap' = [r.m.heap EXCEPT ![inner.v].items = Append(@, item)]
           /\ objDict' = r.m.objDict
           /\ last' = [NoOp EXCEPT !.op = "append0", !.o = o, !.name = n, !.d = classDict[n],
                                   !.arg = item, !.ret = r.val,
                                   !.prev = Stored(objDict, decl, o, classDict[n])]
    /\ UNCHANGED <<decl, classDict>>

---------------------------------------------------------------------------
(* Operations at class-definition time *)

\* The keyword parameters of Declare.__init__.
InitKeywords == {"validate", "watch"}

\* Declare(default, validate=..., watch=..., **extra): a keyword the signature
\* does not name is a TypeError, and no object is made.
New(default, validate, watch, extra) ==
    /\ Len(decl) < MaxDecl
    /\ IF ({"validate", "watch"} \cup extra) \subseteq InitKeywords
       THEN /\ decl' = Append(decl, DeclareInit(default, validate, watch))
            /\ last' = [NoOp EXCEPT !.op = "init", !.arg = default, !.validate = validate,
                                    !.watch = watch, !.kws = extra, !.new = Len(decl) + 1]
       ELSE /\ decl' = decl
            /\ last' = [NoOp EXCEPT !.op = "init", !.arg = default, !.validate = validate,
                                    !.watch = watch, !.kws = extra, !.raised = "TypeError"]
    /\ UNCHANGED <<classDict, objDict, heap>>

\* decl[d](default, validate=..., watch=...): Declare.__call__
Override(d, default, validate, watch) ==
    /\ Len(decl) < MaxDecl
    /\ decl' = Append(decl, DeclareCall(decl[d], default, validate, watch))
    /\ last' = [NoOp EXCEPT !.op = "call", !.d = d, !.arg = default, !.validate = validate,
                            !.watch = watch, !.new = Len(decl) + 1, !.self = decl[d]]
    /\ UNCHANGED <<classDict, objDict, heap>>

\* decl[d].validate(method): the validate decorator applied
Validate(d, method) ==
    /\ LET r == ValidateDecoratorCall(decl[d], method)
       IN  /\ decl' = [decl EXCEPT ![d] = r.decl]
           /\ last' = [NoOp EXCEPT !.op = "validate", !.d = d, !.method = method,
                                   !.ret = r.ret, !.raised = r.raised, !.self = decl[d]]
    /\ UNCHANGED <<classDict, objDict, heap>>

\* decl[d].watch(method): the watch decorator applied
Watch(d, method) ==
    /\ LET r == WatchDecoratorCall(decl[d], method)
       IN  /\ decl' = [decl EXCEPT ![d] = r.decl]
           /\ last' = [NoOp EXCEPT !.op = "watch", !.d = d, !.method = method,
                                   !.ret = r.ret, !.raised = r.raised, !.self = decl[d]]
    /\ UNCHANGED <<classDict, objDict, heap>>

---------------------------------------------------------------------------
(* Initial states *)

\* The list literals used as defaults: [] at address 1, [[]] at address 2 (its
\* inner list at address 3).
EmptyList == ListV(1)
NestedList == ListV(2)
LiteralHeap ==
    [a \in Addrs |->
        IF a = 1 THEN [used |-> TRUE, items |-> << >>]
        ELSE IF a = 2 THEN [used |-> TRUE, items |-> <<ListV(3)>>]
        ELSE IF a = 3 THEN [used |-> TRUE, items |-> << >>]
        ELSE [used |-> FALSE, items |-> << >>]]

NoEntries == [o \in Objs |-> [n \in AttrNames |-> Missing]]
NoFields == [n \in AttrNames |-> 0]

\* A class whose body binds the descriptors of ds under the names of ns, in order.
ClassOf(ds, ns) ==
    /\ decl = [i \in 1..Len(ds) |-> DeclareSetName(ds[i], "Foo", ns[i])]
    /\ classDict = [n \in AttrNames |->
                      IF \E i \in 1..Len(ns) : ns[i] = n
                      THEN CHOOSE i \in 1..Len(ns) : ns[i] = n ELSE 0]

---------------------------------------------------------------------------
(* Spec: a class with one declared field, `value`, and NumObj instances.   *)
(* The field's descriptor is made by the constructor, by a decorator or by *)
(* overriding another descriptor, with the default 0 and every             *)
(* combination of validator and watcher, or with the default [] and no     *)
(* validator.                                                              *)

ValidatorArgs == {"None", "clamp"}
WatcherArgs == {"None", "log", "boom"}

Constructed(defaults) ==
    {DeclareInit(dflt, v, w) : dflt \in defaults, v \in ValidatorArgs, w \in WatcherArgs}

Decorated(defaults) ==
    {WatchDecoratorCall(ValidateDecoratorCall(DeclareInit(dflt, "None", "None"), v).decl, w).decl :
        dflt \in defaults, v \in ValidatorArgs, w \in WatcherArgs}

Overridden(bases, defaults) ==
    {DeclareCall(DeclareInit(base, "None", "None"), dflt, v, w) :
        base \in bases, dflt \in defaults,
        v \in ValidatorArgs, w \in WatcherArgs}

ListConfigs == {DeclareInit(EmptyList, "None", w) : w \in {"None", "log"}}

WriteValues == {IntV(-5), IntV(0), IntV(1), IntV(300), Val("str", 0), EmptyList}

Init ==
    /\ \E cfg \in Constructed({IntV(0)}) \cup Decorated({IntV(0)})
                    \cup Overridden({IntV(1)}, {IntV(0)})
                    \cup Overridden({IntV(0)}, {_NO_VALUE}) \cup ListConfigs :
          ClassOf(<<cfg>>, <<NameValue>>)
    /\ objDict = NoEntries
    /\ heap = LiteralHeap
    /\ last = NoOp

Next ==
    \/ \E o \in Objs, n \in FieldNames : Read(o, n)
    \/ \E o \in Objs, n \in FieldNames, v \in WriteValues : Write(o, n, v)

Spec == Init /\ [][Next]_vars

---------------------------------------------------------------------------
(* SpecHeap: a class with one declared field, `things`, whose default is a *)
(* list literal ([] or [[]]) or 0, made by the constructor or by           *)
(* overriding a descriptor of another default; the callers also mutate the *)
(* lists they read.                                                        *)

HeapDefaults == {IntV(0), EmptyList, NestedList}
HeapConfigs ==
    {DeclareInit(dflt, "None", "None") : dflt \in HeapDefaults}
    \cup {DeclareCall(DeclareInit(base, "None", "None"), dflt, "None", "None") :
            base \in HeapDefaults, dflt \in HeapDefaults}

Item == IntV(7)

InitHeap ==
    /\ \E cfg \in HeapConfigs : ClassOf(<<cfg>>, <<NameThings>>)
    /\ objDict = NoEntries
    /\ heap = LiteralHeap
    /\ last = NoOp

NextHeap ==
    \/ \E o \in Objs, n \in FieldNames : Read(o, n)
    \/ \E o \in Objs, n \in FieldNames : Write(o, n, IntV(1))
    \/ \E o \in Objs, n \in FieldNames : AppendTop(o, n, Item)
    \/ \E o \in Objs, n \in FieldNames : AppendNested(o, n, Item)

SpecHeap == InitHeap /\ [][NextHeap]_vars

---------------------------------------------------------------------------
(* SpecFrame: a class with two declared fields under distinct names: x and *)
(* y, or x and __declare_private_x.  One field is plain or clamped and     *)
(* watched, the other plain or clamped.                                    *)

FramePairs == {<<NameX, NameY>>, <<NameX, NamePX>>, <<NamePX, NameX>>}
FrameValue == IntV(300)

InitFrame ==
    /\ \E ns \in FramePairs, v1 \in ValidatorArgs, v2 \in ValidatorArgs :
          ClassOf(<<DeclareInit(IntV(0), v1, IF v1 = "None" THEN "None" ELSE "log"),
                    DeclareInit(IntV(0), v2, "None")>>, ns)
    /\ objDict = NoEntries
    /\ heap = LiteralHeap
    /\ last = NoOp

NextFrame ==
    \/ \E o \in Objs, n \in FieldNames : Read(o, n)
    \/ \E o \in Objs, n \in FieldNames : Write(o, n, FrameValue)

SpecFrame == InitFrame /\ [][NextFrame]_vars

---------------------------------------------------------------------------
(* SpecNew: the constructor alone, called with a default of every kind,    *)
(* with and without a validator and a watcher, and with or without a       *)
(* keyword its signature does not name.                                    *)

\* One default of every kind.
KindDefaults == {Val(k, IF k = "list" THEN 1 ELSE 0) : k \in Kinds}

InitDef ==
    /\ decl = << >>
    /\ classDict = NoFields
    /\ objDict = NoEntries
    /\ heap = LiteralHeap
    /\ last = NoOp

NextNew ==
    \E dflt \in KindDefaults, v \in {"None", "clamp"}, w \in {"None", "log"},
       extra \in {{}, {"on_set"}} : New(dflt, v, w, extra)

SpecNew == InitDef /\ [][NextNew]_vars

---------------------------------------------------------------------------
(* SpecDef: the class body.  Descriptors are constructed, overridden and   *)
(* decorated; no instance exists yet.                                      *)

CtorArgs == {<<IntV(0), "None", "None">>, <<IntV(0), "clamp", "log">>, <<EmptyList, "None", "None">>}

CallArgs ==
    {<<dflt, "None", "None">> : dflt \in {_NO_VALUE, IntV(0), EmptyList}}
    \cup {<<_NO_VALUE, "positive", "boom">>}

NextDef ==
    \/ \E a \in CtorArgs : New(a[1], a[2], a[3], {})
    \/ \E d \in 1..Len(decl), a \in CallArgs : Override(d, a[1], a[2], a[3])
    \/ \E d \in 1..Len(decl), f \in Validators \cup {"None"} : Validate(d, f)
    \/ \E d \in 1..Len(decl), f \in Watchers \cup {"None"} : Watch(d, f)

SpecDef == InitDef /\ [][NextDef]_vars

---------------------------------------------------------------------------
(* Claims about one field (Spec) *)

\* The descriptor the last operation went through, and what a read of that
\* field on that instance returns now.
LastSelf == decl[last.d]
ReadNow(o, n) == getattr(Here, o, n, Missing).val
Validated(validator, value) ==
    IF validator = "None" THEN value
    ELSE IF validator = "clamp" THEN clamp(value) ELSE positive(value)

\* The write got as far as its store: the validator, if any, returned.
LastWriteStored == last.op = "set" /\ last.raised # "TypeError"

\* C1: on a watched field, a write whose stored result is unequal to the value
\* the field held just before it (the default, for a field not touched before)
\* invokes the watcher exactly once, with (instance, old value, new value); a
\* write whose result equals the previous value does not invoke it.
C1_WatcherOncePerChange ==
    (LastWriteStored /\ LastSelf._watcher # "None") =>
        LET old == IF last.prev = Missing THEN LastSelf._default ELSE last.prev
            new == Stored(objDict, decl, last.o, last.d)
        IN  IF PyNe(heap, old, new)
            THEN /\ Len(last.wcalls) = 1
                 /\ last.wcalls[1][1] = LastSelf._watcher /\ last.wcalls[1][2] = last.o
                 /\ PyEq(heap, last.wcalls[1][3], old) /\ last.wcalls[1][4] = new
                 /\ last.prev # Missing => last.wcalls[1][3] = old
            ELSE last.wcalls = << >>

\* A fresh watched field is written 1: the watcher is called with (0, 1).
C1_Witness ==
    /\ LastWriteStored /\ last.prev = Missing /\ last.arg = IntV(1)
    /\ last.wcalls = << <<"log", last.o, IntV(0), IntV(1)>> >>

\* C2: a write calls the bound validator exactly once, on (instance, value),
\* and the next read returns the validator's result (300 reads back 255 and -5
\* reads back 0 under the clamp), watcher or not; with no validator the next
\* read returns the value written.
C2_WritePassesValidatorOnce ==
    LastWriteStored =>
        /\ ReadNow(last.o, last.name) = Validated(LastSelf._validator, last.arg)
        /\ last.vcalls = IF LastSelf._validator = "None" THEN << >>
                         ELSE << <<LastSelf._validator, last.o, last.arg>> >>

\* 300 is written to an unwatched clamped field and reads back 255.
C2_Witness ==
    /\ LastWriteStored /\ last.arg = IntV(300)
    /\ LastSelf._validator = "clamp" /\ LastSelf._watcher = "None"
    /\ ReadNow(last.o, last.name) = IntV(ClampHi)

\* C8: when the watcher of a write raises, the error reaches the caller and
\* the validated value is already stored: a read returns the new value.
C8_StoreBeforeNotify ==
    (last.op = "set" /\ Len(last.wcalls) > 0 /\ LastSelf._watcher = "boom") =>
        /\ last.raised = "WatcherError"
        /\ ReadNow(last.o, last.name) = Validated(LastSelf._validator, last.arg)
        /\ ReadNow(last.o, last.name) # last.prev

\* The failing watcher was called on a write of 300 over a stored -5.
C8_Witness ==
    /\ last.op = "set" /\ last.raised = "WatcherError"
    /\ last.prev = IntV(-5) /\ last.arg = IntV(300)
    /\ ReadNow(last.o, last.name) = IntV(300)

\* C3, the states: the first read of a field returns a value equal to the
\* default and stores that very value under the storage key; a later read
\* returns the stored value as it is; no read calls a validator or a watcher,
\* and after any read the instance has an entry.
C3_ReadState ==
    last.op = "get" =>
        /\ Stored(objDict, decl, last.o, last.d) = last.ret
        /\ last.ret # Missing
        /\ last.prev = Missing => PyEq(heap, last.ret, LastSelf._default)
        /\ last.prev # Missing => last.ret = last.prev
        /\ last.vcalls = << >> /\ last.wcalls = << >> /\ last.raised = "none"

\* C3, the steps: an instance's entries change only in a read or a write of
\* that instance (so an untouched instance has none), and an entry, once
\* there, stays.
C3_ReadStep ==
    \A o \in Objs :
        /\ objDict'[o] # objDict[o] => (last'.o = o /\ last'.op \in {"get", "set"})
        /\ \A n \in AttrNames : objDict[o][n] # Missing => objDict'[o][n] # Missing

\* C3: per-instance storage is lazily populated.  An instance never read or
\* written has no entry; the first read returns a value equal to the default
\* and stores it; from then on the instance has an entry, and a read returns
\* the stored value without calling the validator or the watcher.
C3_LazyStorage ==
    /\ (last.op = "none" => objDict = NoEntries)
    /\ []C3_ReadState
    /\ [][C3_ReadStep]_vars

\* One instance has read its field for the first time, the other has no entry.
C3_Witness ==
    /\ last.op = "get" /\ last.prev = Missing
    /\ Stored(objDict, decl, last.o, last.d) = LastSelf._default
    /\ \E o \in Objs : o # last.o /\ Stored(objDict, decl, o, last.d) = Missing

---------------------------------------------------------------------------
(* Claims about the class body (SpecDef, SpecNew) *)

\* C5: the validate decorator applied to a function fails with DeclareError
\* when the descriptor already has a validator, from the constructor or from
\* an earlier decorator, and leaves the descriptor as it was; when it has
\* none, the function becomes the validator and is returned; the same holds
\* of the watch decorator and the watcher.
C5_DuplicateBindingRejected ==
    /\ (last.op = "validate" /\ last.method # "None") =>
          IF last.self._validator # "None"
          THEN last.raised = "DeclareError" /\ decl[last.d] = last.self
          ELSE /\ last.raised = "none" /\ last.ret = last.method
               /\ decl[last.d] = [last.self EXCEPT !._validator = last.method]
    /\ (last.op = "watch" /\ last.method # "None") =>
          IF last.self._watcher # "None"
          THEN last.raised = "DeclareError" /\ decl[last.d] = last.self
          ELSE /\ last.raised = "none" /\ last.ret = last.method
               /\ decl[last.d] = [last.self EXCEPT !._watcher = last.method]

\* A second, different validator was refused on a descriptor whose sibling
\* carries the same first validator.
C5_Witness ==
    /\ last.op = "validate" /\ last.raised = "DeclareError"
    /\ last.method # last.self._validator
    /\ Len(decl) = 2 /\ decl[1]._validator = decl[2]._validator

\* C7: a descriptor can be constructed with an on_set callback (the test
\* test_on_set constructs Declare[int](1, on_set=on_set)).
C7_OnSetAccepted ==
    (last.op = "init" /\ "on_set" \in last.kws) => last.raised = "none"

\* C10: the constructor marks the default as not needing a copy exactly when
\* its kind is int, float, bool, str, bytes or complex.
C10_CopyFlagByKind ==
    (last.op = "init" /\ last.raised = "none") =>
        decl[last.new]._copy_default =
            (last.arg.kind \notin {"int", "float", "bool", "str", "bytes", "complex"})

\* A class with the one field `things` bound to descriptor desc, and its
\* instances untouched: what the first read, a write and the read after it
\* give there.
Probe(desc) ==
    Machine(<<DeclareSetName(desc, "Foo", NameThings)>>,
            [n \in AttrNames |-> IF n = NameThings THEN 1 ELSE 0], NoEntries, heap)

Observed(desc, o, value) ==
    LET first  == getattr(Probe(desc), o, NameThings, Missing)
        wrote  == setattr(Probe(desc), o, NameThings, value)
        reread == getattr(wrote, o, NameThings, Missing)
    IN  <<first.val, first.m.objDict, first.m.heap,
          wrote.objDict, wrote.raised, wrote.vcalls, wrote.wcalls, reread.val>>

\* C6: the descriptor that overriding returns reads and writes as one
\* constructed directly with the resulting default, validator and watcher
\* (an omitted argument keeping the original's value), the copying or
\* sharing of its default included; the original is not changed.
C6_OverrideAsConstructed ==
    last.op = "call" =>
        LET dflt == IF last.arg = _NO_VALUE THEN last.self._default ELSE last.arg
            v    == IF last.validate = "None" THEN last.self._validator ELSE last.validate
            w    == IF last.watch = "None" THEN last.self._watcher ELSE last.watch
        IN  /\ decl[last.d] = last.self
            /\ \A o \in Objs, value \in {IntV(1), IntV(300)} :
                  Observed(decl[last.new], o, value) = Observed(DeclareInit(dflt, v, w), o, value)

---------------------------------------------------------------------------
(* Claims about a list-valued field (SpecHeap) *)

\* What a value looks like to its reader: a list with the looks of its items.
RECURSIVE Look(_, _)
Look(h, val) ==
    IF val.kind = "list"
    THEN [kind |-> "list", items |-> [i \in 1..Len(h[val.v].items) |-> Look(h, h[val.v].items[i])]]
    ELSE [kind |-> val.kind, items |-> <<val.v>>]

\* C4: the field is never written, so each instance holds its own
\* materialized default; a mutation made in place through one instance's
\* value shows neither in the value of another instance nor in the
\* descriptor's default.
C4_Isolation ==
    (last'.op \in {"append", "append0"}) =>
        /\ \A o \in Objs \ {last'.o} :
              Stored(objDict, decl, o, last'.d) # Missing =>
                  Look(heap', Stored(objDict', decl', o, last'.d))
                      = Look(heap, Stored(objDict, decl, o, last'.d))
        /\ Look(heap', decl'[last'.d]._default) = Look(heap, decl[last'.d]._default)

\* C4: default isolation, in every step of every run.
C4_DefaultIsolation == [][C4_Isolation]_vars

---------------------------------------------------------------------------
(* Claims about several fields (SpecFrame) *)

BoundNames == {n \in AttrNames : classDict[n] # 0}
ReadOf(od, h, o, n) == getattr(Machine(decl, classDict, od, h), o, n, Missing).val

\* C9: the fields of a class are bound under distinct names, so (their storage
\* keys being distinct from each other and from every field name) a read or a
\* write of one field of one instance leaves the value read from every other
\* field of that instance and from every field of another instance as it was.
C9_Frame ==
    (last'.op \in {"get", "set"}) =>
        \A o \in Objs, n \in BoundNames :
            <<o, n>> # <<last'.o, last'.name>> =>
                ReadOf(objDict', heap', o, n) = ReadOf(objDict, heap, o, n)

\* C9: field and instance independence, in every step of every run.
C9_FieldIndependence == [][C9_Frame]_vars

====
